---- MODULE Spec2Model ----
(***************************************************************************)
(* A model of the command-line argument engine of build.py: the character  *)
(* cursor (Reader), the argument declarations (Arg), and the parsing       *)
(* engine (ArgParser.define_type, add, parse_val, parse).                  *)
(*                                                                         *)
(* A Python string is a sequence of one-character strings, a dict is a     *)
(* function whose DOMAIN is its key set, a list is a sequence.  The cursor *)
(* index idx is 0-based as in the source, so str[idx] there is str[idx+1]  *)
(* here.  The loops of collect and pcollect are modelled one iteration per *)
(* step; everything between two loop heads of parse is one step.           *)
(***************************************************************************)
EXTENDS Integers, Sequences, FiniteSets, TLC

VARIABLES
    arg_map,     \* ArgParser.arg_map : name -> Arg
    pos_args,    \* ArgParser.pos_args: list of Arg
    by_char,     \* ArgParser.by_char : char -> Arg
    types,       \* ArgParser.types   : type tag -> TypeParser
    log,         \* history: the Arg of every add call that returned, in call order
    pc,          \* where the running call stands: "idle", "reader", "collect",
                 \* "pcollect", "while", "parse_pcollect", "parse_collect",
                 \* "short", "returned", "raised"
    str,         \* Reader.str
    idx,         \* Reader.idx
    acc,         \* the local accumulator of Reader.collect (named str in the source)
    pred,        \* the predicate handed to collect / pcollect
    iters,       \* history: loop-body executions of the running collect / pcollect
    start,       \* history: idx when the running collect / pcollect was called
    ret,         \* the last return of a Reader method: [op |-> the method,
                 \* val |-> what it returned, or "IndexError" when it raised]
    out,         \* the local out of ArgParser.parse
    given,       \* the mapping the caller handed to parse, as it was at the call
    outIsGiven,  \* whether the local out still is the caller's mapping object
    pIdx,        \* the local pIdx of ArgParser.parse
    err,         \* the exception that ended the call: [kind, site |-> where in
                 \* parse, arg |-> the name or key it arose for, cause |-> the
                 \* kind of the exception it was raised while handling]
    written,     \* history: the keys parse has stored into out
    hist         \* history: [before |-> the four tables as they were when the
                 \* running parse call began, first |-> how the parse call
                 \* before this one ended, where SpecTwice repeats a call]

vars == <<arg_map, pos_args, by_char, types, log, pc, str, idx, acc, pred,
          iters, start, ret, out, given, outIsGiven, pIdx, err, written, hist>>

engineVars == <<arg_map, pos_args, by_char, types, log>>
readerVars == <<str, idx, acc, pred, iters, start, ret>>
parseVars  == <<out, given, outIsGiven, pIdx, err, written>>

-----------------------------------------------------------------------------
(* Bounds of the model.                                                    *)

\* longest input of the exhaustive part of Inputs
MaxLen == 2
\* add calls per engine in Spec
MaxAdds == 2
\* add calls per engine in SpecAdd
MaxRegs == 3
\* explicit positions range over -MaxNeg .. MaxAt
MaxNeg == 3
MaxAt == 1
\* loop-body executions followed per collect / pcollect call
MaxIters == 6
\* largest |amt|, |off|, |index| handed to next, prev, peek, at
MaxAmt == 2

-----------------------------------------------------------------------------
(* Values.                                                                 *)

\* Python's None, where a character or a name of a function is expected
None == "None"

\* the empty dict
EmptyDict == <<>>

\* d[k] = v
DictPut(d, k, v) == [x \in (DOMAIN d) \cup {k} |-> IF x = k THEN v ELSE d[x]]

\* bool(d) for a dict d, as `not out` tests it
Truthy(d) == DOMAIN d # {}

\* c.isspace() on the characters of the model's alphabet
IsSpace(c) == c \in {" ", "\t"}

RECURSIVE SeqsUpTo(_, _)
SeqsUpTo(S, n) ==
    IF n = 0 THEN {<<>>}
    ELSE LET P == SeqsUpTo(S, n - 1)
         IN  P \cup {Append(s, c) : s \in P, c \in S}

Min(a, b) == IF a < b THEN a ELSE b
Max(a, b) == IF a > b THEN a ELSE b

-----------------------------------------------------------------------------
(* Reader: the accessors as functions of (str, idx).                       *)

\* Reader.current
Current(s, i) == IF i < 0 \/ i >= Len(s) THEN None ELSE s[i + 1]

\* Reader.peek: the character at idx + off, the cursor unmoved
Peek(s, i, off) ==
    LET j == i + off IN IF j >= Len(s) \/ j < 0 THEN None ELSE s[j + 1]

\* Reader.at: str[index] for index > 0 (IndexError past the end), else the
\* character abs(index) before the cursor
At(s, i, index) ==
    IF index > 0
    THEN IF index >= Len(s) THEN "IndexError" ELSE s[index + 1]
    ELSE LET j == i - (IF index < 0 THEN -index ELSE index)
         IN  IF j >= Len(s) \/ j < 0 THEN None ELSE s[j + 1]

\* the predicates handed to collect / pcollect:
\*   isspace  : lambda c : c.isspace()               (parse, line 185)
\*   nameChar : lambda c : c != ' ' and c != '='     (parse, line 195)
\*   always, never : constant predicates
Preds == {"isspace", "nameChar", "always", "never"}

Pred(p, c) ==
    CASE p = "isspace"  -> IsSpace(c)
      [] p = "nameChar" -> c # " " /\ c # "="
      [] p = "always"   -> TRUE
      [] OTHER          -> FALSE

\* the loop condition of collect and pcollect
LoopGuard(s, i, p) == Current(s, i) # None /\ Pred(p, Current(s, i))

\* what pcollect returns: the builtin type str (the method has no local str)
StrType == "<class 'str'>"


-----------------------------------------------------------------------------
(* get_idx_by_pos and the list insert it feeds.                            *)

\* get_idx_by_pos(len, pos)
get_idx_by_pos(len, pos) == IF pos < 0 THEN len + pos ELSE pos

\* array-overwrite semantics in place of the list insert: the element at the
\* index is replaced
ListOverwrite(list, i, x) ==
    LET n == Len(list)
        j == IF i < 0 THEN Max(i + n, 0) ELSE Min(i, n)
    IN  SubSeq(list, 1, j) \o <<x>> \o SubSeq(list, j + 2, n)

\* list.insert(i, x) of Python: a negative i counts from the end, and the
\* index is then clamped into 0 .. len(list)
ListInsert(list, i, x) ==
    LET n == Len(list)
        j == IF i < 0 THEN Max(i + n, 0) ELSE Min(i, n)
    IN  SubSeq(list, 1, j) \o <<x>> \o SubSeq(list, j + 1, n)

-----------------------------------------------------------------------------
(* Arg and TypeParser.                                                     *)

\* Arg.pos: None, the sentinel POS_APPEND_BACK (0xFFFFFFFF), or an int
NoPos == [kind |-> "None", at |-> 0]
POS_APPEND_BACK == [kind |-> "0xFFFFFFFF", at |-> 0]
PosAt(k) == [kind |-> "int", at |-> k]

\* TypeParser(ty, pfunc): an object with a parse method
TypeParser(tag, pfunc) == [isParser |-> TRUE, ty |-> tag, pfunc |-> pfunc]
\* a bare type tag (a Python type such as str): it has no parse attribute
TypeTag(tag) == [isParser |-> FALSE, ty |-> tag, pfunc |-> None]

\* Arg.__init__
Arg(name, char, ty, sw_handler, pos) ==
    [name |-> name, char |-> char, ty |-> ty, sw_handler |-> sw_handler, pos |-> pos]
\* Arg.new, Arg.new_positional, Arg.new_positional_at, Arg.new_switch
ArgNew(name, char, ty) == Arg(name, char, ty, None, NoPos)
ArgNewPositional(name, ty) == Arg(name, None, ty, None, POS_APPEND_BACK)
ArgNewPositionalAt(name, ty, pos) == Arg(name, None, ty, None, PosAt(pos))
ArgNewSwitch(name, char, ty, sw_handler) == Arg(name, char, ty, sw_handler, NoPos)

\* The functions callers hand to TypeParser are not part of the engine; two
\* are enumerated.  Both read with Reader.current / Reader.next:
\*   strict  : the run of non-whitespace characters at the cursor; raises
\*             ArgError when the run is empty
\*   lenient : skips whitespace first, then as strict
RECURSIVE RunEnd(_, _, _)
RunEnd(s, i, space) ==
    IF Current(s, i) = None \/ IsSpace(Current(s, i)) # space THEN i
    ELSE RunEnd(s, i + 1, space)

PfuncStrict(s, i) ==
    LET e == RunEnd(s, i, FALSE)
    IN  IF e = i THEN [raised |-> "ArgError", val |-> <<>>, idx |-> i]
        ELSE [raised |-> None, val |-> SubSeq(s, i + 1, e), idx |-> e]

Pfunc(f, s, i) ==
    IF f = "lenient" THEN PfuncStrict(s, RunEnd(s, i, TRUE)) ELSE PfuncStrict(s, i)

StrictParser  == TypeParser("str", "strict")
LenientParser == TypeParser("str", "lenient")
TypeParsers   == {StrictParser, LenientParser}

\* the switch handler of the model: lambda parser, arg : True
SetTrue == "SetTrue"
Handler(h) == <<"True">>

-----------------------------------------------------------------------------
(* The declarations the specifications register.                           *)

\* Spec: a switch whose name is its character, a switch whose name is not
\* ("verbose" / 'v'), value options, an option with the empty name, two
\* positionals, and an option whose type is a bare tag
EngineArgs ==
    { ArgNewSwitch(<<"v">>, "v", StrictParser, SetTrue),
      ArgNewSwitch(<<"v", "b">>, "v", StrictParser, SetTrue),
      ArgNew(<<"q">>, "q", LenientParser),
      ArgNew(<<"q", "q">>, "q", StrictParser),
      ArgNew(<<>>, None, StrictParser),
      ArgNew(<<"m">>, "m", TypeTag("str")),
      ArgNewPositional(<<"x">>, StrictParser),
      ArgNewPositional(<<"y">>, StrictParser) }

\* SpecAdd: every shape of declaration over two names and two characters
RegNames == {<<"a">>, <<"b">>}
RegChars == {"x", "y"}
Positions == (0 - MaxNeg) .. MaxAt
AllArgs ==
    {ArgNew(n, c, StrictParser) : n \in RegNames, c \in RegChars \cup {None}}
    \cup {ArgNewSwitch(n, "x", StrictParser, SetTrue) : n \in RegNames}
    \cup {ArgNewPositional(n, StrictParser) : n \in RegNames}
    \cup {ArgNewPositionalAt(n, StrictParser, p) : n \in RegNames, p \in Positions}

-----------------------------------------------------------------------------
(* ArgParser: registration.                                                *)

NoErr == [kind |-> None, site |-> None, arg |-> <<>>, cause |-> None]
\* no Reader method has returned yet
NoRet == [op |-> None, val |-> None]

\* the registration state a parse call reads
Tables == <<arg_map, by_char, pos_args, types>>
\* no parse call has ended
NoFirst == [set |-> FALSE, str |-> <<>>, pc |-> None, out |-> EmptyDict,
            kind |-> None, pIdx |-> 0]
NoHist == [before |-> <<>>, first |-> NoFirst]

\* no call is running: the locals of parse and of the Reader do not exist
NoFrame ==
    /\ pc = "idle"
    /\ str = <<>> /\ idx = 0 /\ acc = <<>> /\ pred = None /\ iters = 0 /\ start = 0
    /\ ret = NoRet
    /\ out = EmptyDict /\ given = EmptyDict /\ outIsGiven = FALSE /\ pIdx = 0
    /\ err = NoErr /\ written = {} /\ hist = NoHist

\* ArgParser.__init__
Init ==
    /\ arg_map = EmptyDict /\ pos_args = <<>> /\ by_char = EmptyDict
    /\ types = EmptyDict /\ log = <<>>
    /\ NoFrame

\* ArgParser.define_type(ty)
DefineType(tp) ==
    /\ pc = "idle"
    /\ types' = DictPut(types, tp.ty, tp)
    /\ UNCHANGED <<arg_map, pos_args, by_char, log, pc, readerVars, parseVars, hist>>

\* the three stores of ArgParser.add
AddName(m, arg) == DictPut(m, arg.name, arg)
AddChar(m, arg) == IF arg.char # None THEN DictPut(m, arg.char, arg) ELSE m
AddPos(list, arg) ==
    IF arg.pos # NoPos
    THEN IF arg.pos = POS_APPEND_BACK
         THEN Append(list, arg)
         ELSE ListInsert(list, get_idx_by_pos(Len(list), arg.pos.at), arg)
    ELSE list

\* ArgParser.add(arg): three stores and no test of what is already
\* registered; it always returns
Add(arg) ==
    /\ pc = "idle"
    /\ arg_map' = AddName(arg_map, arg)
    /\ by_char' = AddChar(by_char, arg)
    /\ pos_args' = AddPos(pos_args, arg)
    /\ log' = Append(log, arg)
    /\ UNCHANGED <<types, pc, readerVars, parseVars, hist>>

\* registration alone
AddAny == \E arg \in AllArgs : Len(log) < MaxRegs /\ Add(arg)
DefineAny == \E tp \in TypeParsers : DefineType(tp)

NextAdd == AddAny \/ DefineAny
SpecAdd == Init /\ [][NextAdd]_vars


-----------------------------------------------------------------------------
(* Reader: the methods, on a Reader of its own.                            *)

ReaderChars == {"a", " ", "="}
ReaderStrings == SeqsUpTo(ReaderChars, MaxLen)

\* Reader.__init__(str)
InitReader ==
    /\ arg_map = EmptyDict /\ pos_args = <<>> /\ by_char = EmptyDict
    /\ types = EmptyDict /\ log = <<>>
    /\ pc = "reader"
    /\ str \in ReaderStrings
    /\ idx = 0 /\ acc = <<>> /\ pred = None /\ iters = 0 /\ start = 0 /\ ret = NoRet
    /\ out = EmptyDict /\ given = EmptyDict /\ outIsGiven = FALSE /\ pIdx = 0
    /\ err = NoErr /\ written = {} /\ hist = NoHist

Amounts == (0 - MaxAmt) .. MaxAmt
\* the cursor positions the model follows
InRange(i) == i >= 0 - MaxAmt /\ i <= Len(str) + MaxAmt

ReaderFrame == <<engineVars, hist, pc, str, acc, pred, iters, start, parseVars>>

\* Reader.current()
ReaderCurrent ==
    /\ pc = "reader"
    /\ ret' = [op |-> "current", val |-> Current(str, idx)]
    /\ UNCHANGED <<ReaderFrame, idx>>

\* Reader.next(amt)
ReaderNext(amt) ==
    /\ pc = "reader" /\ InRange(idx + amt)
    /\ idx' = idx + amt
    /\ ret' = [op |-> "next", val |-> Current(str, idx')]
    /\ UNCHANGED ReaderFrame

\* Reader.prev(amt)
ReaderPrev(amt) ==
    /\ pc = "reader" /\ InRange(idx - amt)
    /\ idx' = idx - amt
    /\ ret' = [op |-> "prev", val |-> Current(str, idx')]
    /\ UNCHANGED ReaderFrame

\* Reader.peek(off)
ReaderPeek(off) ==
    /\ pc = "reader"
    /\ ret' = [op |-> "peek", val |-> Peek(str, idx, off)]
    /\ UNCHANGED <<ReaderFrame, idx>>

\* Reader.at(index): the value it returns, or "IndexError" when str[index] raises
ReaderAt(index) ==
    /\ pc = "reader"
    /\ ret' = [op |-> "at", val |-> At(str, idx, index)]
    /\ UNCHANGED <<ReaderFrame, idx>>

\* Reader.collect(pred), entered: str = ""
CollectCall(p) ==
    /\ pc = "reader"
    /\ pc' = "collect" /\ pred' = p /\ acc' = <<>> /\ iters' = 0 /\ start' = idx
    /\ UNCHANGED <<engineVars, hist, str, idx, ret, parseVars>>

\* Reader.pcollect(pred), entered
PcollectCall(p) ==
    /\ pc = "reader"
    /\ pc' = "pcollect" /\ pred' = p /\ iters' = 0 /\ start' = idx
    /\ UNCHANGED <<engineVars, hist, str, idx, acc, ret, parseVars>>

\* what one execution of the body of collect's loop does to the cursor
CollectBodyIdx(i) == i
\* what one execution of the body of pcollect's loop (pass) does to the cursor
PcollectBodyIdx(i) == i

\* one iteration of the loop of collect: str += self.current()
CollectIter ==
    /\ pc \in {"collect", "parse_collect"}
    /\ LoopGuard(str, idx, pred)
    /\ iters < MaxIters
    /\ acc' = Append(acc, Current(str, idx))
    /\ idx' = CollectBodyIdx(idx)
    /\ iters' = iters + 1
    /\ UNCHANGED <<engineVars, hist, pc, str, pred, start, ret, parseVars>>

\* one iteration of the loop of pcollect: pass
PcollectIter ==
    /\ pc \in {"pcollect", "parse_pcollect"}
    /\ LoopGuard(str, idx, pred)
    /\ iters < MaxIters
    /\ idx' = PcollectBodyIdx(idx)
    /\ iters' = iters + 1
    /\ UNCHANGED <<engineVars, hist, pc, str, acc, pred, start, ret, parseVars>>

\* collect returns its accumulator
CollectReturn ==
    /\ pc = "collect"
    /\ ~LoopGuard(str, idx, pred)
    /\ pc' = "reader" /\ ret' = [op |-> "collect", val |-> acc]
    /\ UNCHANGED <<engineVars, hist, str, idx, acc, pred, iters, start, parseVars>>

\* pcollect returns the name str, which is the builtin type there
PcollectReturn ==
    /\ pc = "pcollect"
    /\ ~LoopGuard(str, idx, pred)
    /\ pc' = "reader" /\ ret' = [op |-> "pcollect", val |-> StrType]
    /\ UNCHANGED <<engineVars, hist, str, idx, acc, pred, iters, start, parseVars>>

NextReader ==
    \/ ReaderCurrent
    \/ \E amt \in Amounts : ReaderNext(amt)
    \/ \E amt \in Amounts : ReaderPrev(amt)
    \/ \E off \in Amounts : ReaderPeek(off)
    \/ \E index \in (0 - MaxAmt) .. (MaxLen + 1) : ReaderAt(index)
    \/ \E p \in Preds : CollectCall(p)
    \/ \E p \in Preds : PcollectCall(p)
    \/ CollectIter
    \/ PcollectIter
    \/ CollectReturn
    \/ PcollectReturn

SpecReader == InitReader /\ [][NextReader]_vars


-----------------------------------------------------------------------------
(* ArgParser.parse_val and ArgParser.parse.                                *)

\* the inputs handed to parse: every string of at most MaxLen characters
\* over InputChars, and the longer command lines of Examples
InputChars == {"-", " ", "v", "1"}
Examples ==
    { <<"-", "-", "q", "=", "1">>,
      <<"-", "-", "=", "1">>,
      <<"-", "-", "=">>,
      <<"-", "-", " ", "1">>,
      <<"-", "-", "v", "=", "1">>,
      <<"-", "-", "v", "\t", "1">>,
      <<"-", "v", "q", " ", "1">>,
      <<"-", "v", "q", "1">>,
      <<"-", "q", " ", "1">>,
      <<"1", " ", "2">>,
      <<"1", " ", "2", " ", "1">>,
      <<"1", "\t">>,
      <<"-", "m", "1">>,
      <<"-", "x", "1">> }
Inputs == SeqsUpTo(InputChars, MaxLen) \cup Examples

\* the mappings handed to parse: an empty one, and one holding an entry
OldValue == <<"0">>
Givens == {EmptyDict, DictPut(EmptyDict, <<"x">>, OldValue)}

\* what leaves the except clause of parse_val: the print of its first line
\* evaluates "..." + arg.name + ": " + e with e an exception, a TypeError,
\* and the raise ArgError("arg parse failed") after it is not reached
HandlerRaises == "TypeError"

\* arg.ty.parse(self, arg, reader) inside the try of parse_val, with the
\* Reader at index i.  arg.ty is used as it is, self.types is not read: a
\* bare tag has no parse attribute (AttributeError, not caught).  An ArgError
\* of the value function is caught, and the handler's print concatenates a
\* str and the exception, which raises TypeError before the re-raise.
ParseVal(arg, s, i) ==
    IF ~arg.ty.isParser
    THEN [raised |-> "AttributeError", cause |-> None, val |-> <<>>, idx |-> i]
    ELSE LET r == Pfunc(arg.ty.pfunc, s, i)
         IN  IF r.raised = "ArgError"
             THEN [raised |-> HandlerRaises, cause |-> r.raised, val |-> <<>>,
                   idx |-> r.idx]
             ELSE [raised |-> None, cause |-> None, val |-> r.val, idx |-> r.idx]

\* the table parse looks a long name up in
LongTable == arg_map
\* the table parse looks a short character up in: arg_map, by the
\* one-character string as a name (by_char is never read)
ShortTable == arg_map
ShortKey(c) == <<c>>

\* `if not out: out = { }`: whether parse keeps the caller's mapping object
KeepsGiven(o) == Truthy(o)

\* a positional index that outlives the call: what the one of the call
\* before ended with
CarriedPIdx == hist.first.pIdx
\* pIdx = 0: the positional index is a local of parse
FirstPIdx == 0

\* parse(str, out), up to the first test of the while loop
ParseCall(s, o) ==
    /\ pc = "idle"
    /\ pc' = "while"
    /\ str' = s /\ idx' = 0
    /\ given' = o /\ out' = (IF KeepsGiven(o) THEN o ELSE EmptyDict)
    /\ outIsGiven' = KeepsGiven(o)
    /\ pIdx' = FirstPIdx
    /\ hist' = [hist EXCEPT !.before = Tables]
    /\ UNCHANGED <<engineVars, acc, pred, iters, start, ret, err, written>>

\* the while test fails: return out
ParseReturn ==
    /\ pc = "while"
    /\ Current(str, idx) = None
    /\ pc' = "returned"
    /\ UNCHANGED <<engineVars, hist, readerVars, parseVars>>

\* the while test holds: reader.pcollect(isspace) is entered
ParseLoop ==
    /\ pc = "while"
    /\ Current(str, idx) # None
    /\ pc' = "parse_pcollect" /\ pred' = "isspace" /\ iters' = 0 /\ start' = idx
    /\ UNCHANGED <<engineVars, hist, str, idx, acc, ret, parseVars>>

\* an exception leaves parse
RaiseFrom(kind, site, arg, cause) ==
    /\ pc' = "raised"
    /\ err' = [kind |-> kind, site |-> site, arg |-> arg, cause |-> cause]
Raise(kind, site, arg) == RaiseFrom(kind, site, arg, None)

\* val = self.parse_val(arg, reader) with the Reader at i; out[arg.name] = val
StoreVal(arg, i) ==
    LET r == ParseVal(arg, str, i)
    IN  /\ idx' = r.idx
        /\ IF r.raised # None
           THEN /\ RaiseFrom(r.raised, "parse_val", arg.name, r.cause)
                /\ UNCHANGED <<out, written>>
           ELSE /\ pc' = "while"
                /\ out' = DictPut(out, arg.name, r.val)
                /\ written' = written \cup {arg.name}
                /\ err' = err

\* pcollect is left; c == '-' and reader.next() == '-': the name is collected
ParseLong ==
    /\ pc = "parse_pcollect"
    /\ ~LoopGuard(str, idx, pred)
    /\ Current(str, idx) = "-" /\ Current(str, idx + 1) = "-"
    /\ idx' = idx + 2
    /\ pc' = "parse_collect" /\ pred' = "nameChar" /\ acc' = <<>> /\ iters' = 0
    /\ start' = idx + 2
    /\ UNCHANGED <<engineVars, hist, str, ret, parseVars>>

\* collect is left with the name: lookup, then the value or the switch
ParseLongArg ==
    /\ pc = "parse_collect"
    /\ ~LoopGuard(str, idx, pred)
    /\ IF acc \notin DOMAIN LongTable
       THEN /\ Raise("KeyError", "name", acc)
            /\ UNCHANGED <<idx, out, written>>
       ELSE LET arg == LongTable[acc]
            IN  IF arg.sw_handler = None \/ Current(str, idx) = "="
                THEN StoreVal(arg, idx + 1)
                ELSE /\ out' = DictPut(out, arg.name, Handler(arg.sw_handler))
                     /\ written' = written \cup {arg.name}
                     /\ pc' = "while"
                     /\ UNCHANGED <<idx, err>>
    /\ UNCHANGED <<engineVars, hist, str, acc, pred, iters, start, ret, given,
                   outIsGiven, pIdx>>

\* pcollect is left; c == '-' and reader.next() is no '-': the short form
ParseShort ==
    /\ pc = "parse_pcollect"
    /\ ~LoopGuard(str, idx, pred)
    /\ Current(str, idx) = "-" /\ Current(str, idx + 1) # "-"
    /\ idx' = idx + 1
    /\ pc' = "short"
    /\ UNCHANGED <<engineVars, hist, str, acc, pred, iters, start, ret, parseVars>>

\* the test of the short-form loop fails
ParseShortEnd ==
    /\ pc = "short"
    /\ (Current(str, idx) = None \/ Current(str, idx) = " ")
    /\ pc' = "while"
    /\ UNCHANGED <<engineVars, hist, readerVars, parseVars>>

\* one iteration of the short-form loop
ParseShortArg ==
    /\ pc = "short"
    /\ Current(str, idx) # None /\ Current(str, idx) # " "
    /\ LET key == ShortKey(Current(str, idx))
       IN  IF key \notin DOMAIN ShortTable
           THEN /\ Raise("KeyError", "char", key)
                /\ UNCHANGED <<idx, out, written>>
           ELSE LET arg == ShortTable[key]
                IN  IF arg.sw_handler = None
                    THEN StoreVal(arg, idx + 1)
                    ELSE /\ out' = DictPut(out, arg.name, Handler(arg.sw_handler))
                         /\ written' = written \cup {arg.name}
                         /\ idx' = idx + 1
                         /\ pc' = "short"
                         /\ err' = err
    /\ UNCHANGED <<engineVars, hist, str, acc, pred, iters, start, ret, given,
                   outIsGiven, pIdx>>

\* pcollect is left; c is no '-': arg = self.pos_args[pIdx], pIdx += 1, the value
ParsePositional ==
    /\ pc = "parse_pcollect"
    /\ ~LoopGuard(str, idx, pred)
    /\ Current(str, idx) # "-"
    /\ IF pIdx >= Len(pos_args)
       THEN /\ Raise("IndexError", "positional", <<>>)
            /\ UNCHANGED <<idx, out, written, pIdx>>
       ELSE /\ pIdx' = pIdx + 1
            /\ StoreVal(pos_args[pIdx + 1], idx)
    /\ UNCHANGED <<engineVars, hist, str, acc, pred, iters, start, ret, given, outIsGiven>>

\* the call is over (returned or raised) and its frame is gone: the engine
\* keeps nothing of it
FrameGone ==
    /\ pc \in {"returned", "raised"}
    /\ pc' = "idle"
    /\ str' = <<>> /\ idx' = 0 /\ acc' = <<>> /\ pred' = None /\ iters' = 0
    /\ start' = 0 /\ ret' = NoRet
    /\ out' = EmptyDict /\ given' = EmptyDict /\ outIsGiven' = FALSE /\ pIdx' = 0
    /\ err' = NoErr /\ written' = {}
    /\ UNCHANGED engineVars

ParseOver == FrameGone /\ hist' = NoHist

AddOne == \E arg \in EngineArgs : Len(log) < MaxAdds /\ Add(arg)
DefineOne == DefineType(StrictParser)

Next ==
    \/ AddOne
    \/ DefineOne
    \/ \E s \in Inputs, o \in Givens : ParseCall(s, o)
    \/ ParseReturn
    \/ ParseLoop
    \/ PcollectIter
    \/ ParseLong
    \/ CollectIter
    \/ ParseLongArg
    \/ ParseShort
    \/ ParseShortEnd
    \/ ParseShortArg
    \/ ParsePositional
    \/ ParseOver

Spec == Init /\ [][Next]_vars

-----------------------------------------------------------------------------
(* Two parse calls on one engine: once the registration is done, an input  *)
(* is parsed into an empty mapping, and then parsed again.                 *)

\* how the running call ended, as the history keeps it
Ending == [set |-> TRUE, str |-> str, pc |-> pc, out |-> out, kind |-> err.kind,
           pIdx |-> pIdx]

AddBefore == ~hist.first.set /\ AddOne
DefineBefore == ~hist.first.set /\ DefineOne
ParseFirst == ~hist.first.set /\ \E s \in Inputs : ParseCall(s, EmptyDict)
ParseAgain == hist.first.set /\ ParseCall(hist.first.str, EmptyDict)
\* the first call is over
ParseOverFirst ==
    /\ ~hist.first.set
    /\ FrameGone
    /\ hist' = [before |-> <<>>, first |-> Ending]
\* the second call is over
ParseOverAgain == hist.first.set /\ FrameGone /\ hist' = NoHist

NextTwice ==
    \/ AddBefore
    \/ DefineBefore
    \/ ParseFirst
    \/ ParseAgain
    \/ ParseReturn
    \/ ParseLoop
    \/ PcollectIter
    \/ ParseLong
    \/ CollectIter
    \/ ParseLongArg
    \/ ParseShort
    \/ ParseShortEnd
    \/ ParseShortArg
    \/ ParsePositional
    \/ ParseOverFirst
    \/ ParseOverAgain

SpecTwice == Init /\ [][NextTwice]_vars


-----------------------------------------------------------------------------
(* The claims.                                                             *)

\* a call that has ended
Ended == pc \in {"returned", "raised"}

\* a loop over the input that moves the cursor forward in every iteration
\* makes at most Len(str) iterations
LoopWithinInput == iters <= Len(str)

\* C1: Reader.collect and Reader.pcollect terminate for every input, cursor
\* position and predicate: every executed iteration of the loop has advanced
\* the cursor by one, so a call makes at most Len(str) iterations.
C1_CollectTerminates ==
    pc \in {"collect", "pcollect"} => (idx = start + iters /\ LoopWithinInput)

\* --name=value
LongEq(n, v) == <<"-", "-">> \o n \o <<"=">> \o v

\* the input is --n=value for the registered name n, whose type is a parser
\* that reads the value up to the end of the input
C2Case(n) ==
    /\ pc # "idle" /\ given = EmptyDict
    /\ arg_map[n].ty.isParser
    /\ Len(str) > Len(n) + 3
    /\ str = LongEq(n, SubSeq(str, Len(n) + 4, Len(str)))
    /\ Pfunc(arg_map[n].ty.pfunc, str, Len(n) + 3).raised = None
    /\ Pfunc(arg_map[n].ty.pfunc, str, Len(n) + 3).idx = Len(str)

\* C2: for every registered name n with value type T, parse("--n=value", {})
\* returns the mapping whose only entry is n -> the result of T's parser with
\* the cursor on the first character of value.
C2_LongNameValue ==
    \A n \in DOMAIN arg_map :
        C2Case(n) =>
            /\ LoopWithinInput
            /\ pc # "raised"
            /\ pc = "returned" =>
                 out = DictPut(EmptyDict, n,
                               Pfunc(arg_map[n].ty.pfunc, str, Len(n) + 3).val)

\* C3: a long name or a short character without a matching declaration makes
\* parse abort with ArgError "unknown arg ..." and with no other failure.
C3_UnknownArgument ==
    /\ (pc = "raised" /\ err.site = "name" /\ err.arg \notin DOMAIN arg_map)
          => err.kind = "ArgError"
    /\ (pc = "raised" /\ err.site = "char" /\ err.arg[1] \notin DOMAIN by_char)
          => err.kind = "ArgError"

\* d is the declaration registered under its own name
Registered(d) == d.name \in DOMAIN arg_map /\ arg_map[d.name] = d

\* the input is -c for the switch registered with the short character c
C4Case(c) ==
    /\ given = EmptyDict /\ str = <<"-", c>>
    /\ by_char[c].sw_handler # None /\ Registered(by_char[c])

\* C4: for a switch registered with name N and short character c,
\* parse("-c", {}) returns exactly {N: result of the switch handler}.
C4_ShortSwitch ==
    \A c \in DOMAIN by_char :
        (Ended /\ C4Case(c)) =>
            /\ pc = "returned"
            /\ out = DictPut(EmptyDict, by_char[c].name,
                             Handler(by_char[c].sw_handler))

\* bare tokens, and the command lines made of them
BareTokens == {<<"1">>, <<"2">>}
TokenLists == {ts \in SeqsUpTo(BareTokens, 3) : ts # <<>>}
RECURSIVE Join(_)
Join(ts) ==
    IF Len(ts) = 1 THEN ts[1]
    ELSE Join(SubSeq(ts, 1, Len(ts) - 1)) \o <<" ">> \o ts[Len(ts)]

\* the positional list holds append-at-end declarations with distinct names
\* and parser types
PlainPositionals ==
    /\ \A i \in DOMAIN pos_args :
          pos_args[i].pos = POS_APPEND_BACK /\ pos_args[i].ty.isParser
    /\ \A i, j \in DOMAIN pos_args : i # j => pos_args[i].name # pos_args[j].name

\* C5: with k positional declarations and an input of k whitespace-separated
\* bare tokens, parse gives the i-th token's parsed value to the i-th
\* declaration of the positional list.
C5_PositionalOrder ==
    \A ts \in TokenLists :
        ( /\ pc # "idle" /\ given = EmptyDict /\ PlainPositionals
          /\ Len(ts) = Len(pos_args) /\ str = Join(ts) ) =>
            /\ LoopWithinInput
            /\ pc # "raised"
            /\ pc = "returned" =>
                 out = [n \in {pos_args[i].name : i \in DOMAIN pos_args} |->
                          LET i == CHOOSE k \in DOMAIN pos_args : pos_args[k].name = n
                          IN  Pfunc(pos_args[i].ty.pfunc, ts[i], 0).val]

\* C6: with more bare tokens than positional declarations, parse aborts at
\* the first bare token for which no positional declaration remains.
C6_PositionalOverflow ==
    \A ts \in TokenLists :
        ( /\ pc # "idle" /\ PlainPositionals
          /\ Len(ts) > Len(pos_args) /\ str = Join(ts) ) =>
            /\ LoopWithinInput
            /\ pc # "returned"
            /\ pc = "raised" =>
                 err.site = "positional" /\ pIdx = Len(pos_args)

\* the input is the cluster -vq followed by the value, on the same token or
\* on the next one; v is the character of a switch, q of a value option
C7Case(v, q, val) ==
    /\ given = EmptyDict
    /\ str \in {<<"-", v, q>> \o val, <<"-", v, q, " ">> \o val}
    /\ by_char[v].sw_handler # None /\ Registered(by_char[v])
    /\ by_char[q].sw_handler = None /\ Registered(by_char[q])
    /\ by_char[q].ty.isParser

\* C7: in a short-form cluster a switch character invokes its handler and the
\* chain goes on; the first value-taking character ends it and takes the rest
\* of the token or, when nothing remains, the next token:
\* parse("-vq bar", {}) returns {name of v: true, name of q: "bar"}.
C7_ShortCluster ==
    \A v, q \in DOMAIN by_char : \A val \in BareTokens :
        (Ended /\ C7Case(v, q, val)) =>
            /\ pc = "returned"
            /\ out = DictPut(DictPut(EmptyDict, by_char[v].name,
                                     Handler(by_char[v].sw_handler)),
                             by_char[q].name, val)

\* x put at index k of list, 0 <= k <= Len(list)
InsertAt(list, k, x) ==
    SubSeq(list, 1, k) \o <<x>> \o SubSeq(list, k + 1, Len(list))

\* the index of a list insert at position p of a list of n elements, a
\* negative p counted from the end
IndexFromEnd(n, p) == IF p >= 0 THEN Min(p, n) ELSE Max(n + p, 0)

\* the same, with a p below -n counted from the end a second time
IndexFromEndTwice(n, p) ==
    IF p >= 0 THEN Min(p, n)
    ELSE IF n + p >= 0 THEN n + p ELSE Max(2 * n + p, 0)

\* the positional list that the adds of l give, applied in order
RECURSIVE Replay(_, _)
Replay(l, twice) ==
    IF l = <<>> THEN <<>>
    ELSE LET prev == Replay(SubSeq(l, 1, Len(l) - 1), twice)
             a    == l[Len(l)]
             n    == Len(prev)
         IN  IF a.pos = NoPos THEN prev
             ELSE IF a.pos = POS_APPEND_BACK THEN InsertAt(prev, n, a)
             ELSE InsertAt(prev,
                           IF twice THEN IndexFromEndTwice(n, a.pos.at)
                                    ELSE IndexFromEnd(n, a.pos.at),
                           a)

C9_DuplicateRejected ==
    \A i, j \in DOMAIN log :
        i < j => /\ log[i].name # log[j].name
                 /\ (log[j].char = None \/ log[i].char # log[j].char)

\* C10: parse writes into the mapping object the caller supplied and returns
\* that same mapping, an empty one included; the entries the input does not
\* name are kept.
C10_SameMapping ==
    pc = "returned" =>
        /\ outIsGiven
        /\ \A k \in DOMAIN given :
              k \in DOMAIN out /\ (k \notin written => out[k] = given[k])

\* the Reader methods that return one character or None
Accessors == {"current", "next", "prev", "peek", "at"}

\* C11: for every input, cursor position and argument, what current, next,
\* prev, peek and at return is a character of the input or None: no accessor
\* indexes the string out of bounds.
C11_AccessorsTotal ==
    ret.op \in Accessors =>
        (ret.val = None \/ \E i \in 1 .. Len(str) : str[i] = ret.val)

\* the one exception class of the source stands for every error kind of the
\* engine
ArgumentValueError == "ArgError"

\* C12: when the value parser called for a declaration fails, the failure is
\* caught and the parse ends with the ArgumentValueError kind, carrying the
\* name of the declaration and the cause; no other kind escapes.
C12_ValueParserFailure ==
    (pc = "raised" /\ err.cause # None) =>
        (err.kind = ArgumentValueError /\ err.site = "parse_val")

UnrecognizedType == "ArgError"

\* the input is -c1 for the value option d, registered under its name and its
\* short character c, whose type is a bare tag
C13Case(d) ==
    /\ Ended /\ given = EmptyDict
    /\ ~d.ty.isParser /\ d.sw_handler = None
    /\ d.char \in DOMAIN by_char /\ by_char[d.char] = d
    /\ str = <<"-", d.char, "1">>

\* C13: the value of a declaration is read by the function the registry holds
\* for the declaration's type tag (the one define_type stored last), and a
\* tag the registry does not hold ends the parse with UnrecognizedType.
C13_RegistryResolves ==
    \A n \in DOMAIN arg_map :
        C13Case(arg_map[n]) =>
            IF arg_map[n].ty.ty \in DOMAIN types
            THEN /\ pc = "returned"
                 /\ out = DictPut(EmptyDict, n,
                                  Pfunc(types[arg_map[n].ty.ty].pfunc, str, 2).val)
            ELSE pc = "raised" /\ err.kind = UnrecognizedType

\* the loops of a parse call: the whitespace skip and the name of the long form
ParseLoops == {"parse_pcollect", "parse_collect"}

\* C14: parse terminates for every registration state and every input: each
\* loop it runs moves the cursor forward with every iteration, so none makes
\* more iterations than the input has characters.
C14_ParseTerminates == pc \in ParseLoops => LoopWithinInput

\* the second of two calls with the same input has ended
SecondEnded == hist.first.set /\ Ended /\ str = hist.first.str /\ given = EmptyDict

\* C15: with the registration state fixed, a second parse of the same input
\* into an empty mapping ends as the first did: it returns an equal mapping,
\* or it raises the same kind of error.
C15_SameResult ==
    SecondEnded =>
        (pc = hist.first.pc /\ out = hist.first.out /\ err.kind = hist.first.kind)

\* a second call has returned a mapping with a positional in it
C15_Witness ==
    SecondEnded /\ pc = "returned" /\ pIdx > 0 /\ out # EmptyDict

\* the positions of a parse call
ParsePcs == {"while", "parse_pcollect", "parse_collect", "short", "returned", "raised"}

\* C16: parse leaves the registration state as it was: throughout a call and
\* when it has returned or raised, the by-name table, the by-character table,
\* the positional list and the registry are what they were when the call
\* began, and every call begins with the positional index 0.
C16_RegistrationUnchanged ==
    pc \in ParsePcs =>
        /\ Tables = hist.before
        /\ (pc = "while" /\ idx = 0) => pIdx = 0

\* a second call begins on an engine whose first call took a positional
C16_Witness ==
    /\ hist.first.set /\ hist.first.pIdx > 0
    /\ pc = "while" /\ idx = 0 /\ pos_args # <<>>

\* the tokens of the input: a token begins at j, and j .. i lies in one token
IsTokenStart(j) ==
    /\ j \in 1 .. Len(str) /\ ~IsSpace(str[j])
    /\ (j = 1 \/ IsSpace(str[j - 1]))
SameToken(j, i) == j <= i /\ i <= Len(str) /\ \A m \in j .. i : ~IsSpace(str[m])

\* the input references the name k in the long form: a token --k, ended by
\* '=', whitespace or the end of the input
LongRef(k) ==
    \E j \in 1 .. Len(str) :
        LET e == j + 1 + Len(k)
        IN  /\ IsTokenStart(j) /\ e <= Len(str)
            /\ SubSeq(str, j, e) = <<"-", "-">> \o k
            /\ (e = Len(str) \/ str[e + 1] = "=" \/ IsSpace(str[e + 1]))

\* the input references the name k by a short character: a token with one
\* dash holds a character the by-character table maps to the declaration k
ShortRef(k) ==
    \E c \in DOMAIN by_char, j \in 1 .. Len(str), i \in 1 .. Len(str) :
        /\ by_char[c].name = k
        /\ IsTokenStart(j) /\ str[j] = "-" /\ j < i /\ str[j + 1] # "-"
        /\ SameToken(j, i) /\ str[i] = c

\* the input references the name k by position: k is a positional
\* declaration and the input has a bare token
PosRef(k) ==
    /\ \E p \in 1 .. Len(pos_args) : pos_args[p].name = k
    /\ \E j \in 1 .. Len(str) : IsTokenStart(j) /\ str[j] # "-"

\* C17: the keys of the mapping a parse of an empty mapping returns are names
\* of declarations the input references, by long name, by short character
\* or by a bare token; nothing else is a key.
C17_OnlyReferenced ==
    (pc = "returned" /\ given = EmptyDict) =>
        \A k \in DOMAIN out : LongRef(k) \/ ShortRef(k) \/ PosRef(k)

\* parse("1" + w, {}) for a whitespace character w, with one positional
\* declaration whose type is a parser
C18Case ==
    /\ pc \in ParsePcs /\ given = EmptyDict
    /\ Len(str) = 2 /\ str[1] = "1" /\ IsSpace(str[2])
    /\ Len(pos_args) = 1 /\ pos_args[1].ty.isParser

\* C18: when the input ends in whitespace the loop stops after the whitespace
\* skip, taking no positional and raising nothing: parse("1 ") with one
\* positional declaration returns the mapping parse("1") returns.
C18_TrailingWhitespace ==
    C18Case =>
        /\ LoopWithinInput
        /\ pc # "raised" /\ pIdx <= 1
        /\ pc = "returned" => out = DictPut(EmptyDict, pos_args[1].name, <<"1">>)

\* the input begins with --n for the registered name n, and '=', a whitespace
\* character or the end of the input follows the name
C19Case(n) ==
    LET e == 2 + Len(n)
    IN  /\ pc \in ParsePcs /\ given = EmptyDict
        /\ e <= Len(str) /\ SubSeq(str, 1, e) = <<"-", "-">> \o n
        /\ (e = Len(str) \/ str[e + 1] = "=" \/ IsSpace(str[e + 1]))

\* C19: in the long form the name is the run of characters after the two
\* dashes up to the next '=', whitespace character or end of input: reading
\* it ends within the input and yields the registered name, which is found;
\* for a switch named by the whole input the handler's result is stored and
\* the cursor is left where the name ended.
C19_LongForm ==
    \A n \in DOMAIN arg_map :
        C19Case(n) =>
            /\ pc = "parse_collect" => LoopWithinInput
            /\ (pc = "parse_collect" /\ start = 2 /\ ~LoopGuard(str, idx, pred))
                   => acc = n
            /\ err.site # "name"
            /\ (Ended /\ arg_map[n].sw_handler # None /\ Len(str) = 2 + Len(n))
                   => /\ pc = "returned" /\ idx = Len(str)
                      /\ out = DictPut(EmptyDict, n, Handler(arg_map[n].sw_handler))

\* C20: after any sequence of add calls, every declaration in the
\* by-character table or in the positional list is the one stored under its
\* name in the by-name table, no declaration is in the positional list twice,
\* and no declaration in the positional list has a switch handler.
C20_TablesAgree ==
    /\ \A c \in DOMAIN by_char : Registered(by_char[c])
    /\ \A i \in DOMAIN pos_args :
          Registered(pos_args[i]) /\ pos_args[i].sw_handler = None
    /\ \A i, j \in DOMAIN pos_args : i < j => pos_args[i] # pos_args[j]

====
